---- MODULE Spec2Model ----
(***************************************************************************)
(* Bond Yield Calculator: BondService (bond.service.ts) and the pieces of  *)
(* the front end that hold state.                                          *)
(*                                                                         *)
(* Every TypeScript `number` is an IEEE-754 binary64 value.  The module    *)
(* models it as such: a finite non-zero number is sign * m * 2^e with m an *)
(* odd natural of at most 53 bits, and +, -, *, / and Math.round give the  *)
(* correctly rounded (round-to-nearest, ties-to-even) results.  Naturals   *)
(* wider than TLC's 32-bit integers are little-endian limb sequences.      *)
(***************************************************************************)
EXTENDS Integers, Sequences, FiniteSets, TLC

(***************************************************************************)
(* Naturals of arbitrary width: little-endian sequences of limbs below     *)
(* Base, without leading zero limbs (<<>> is 0).                           *)
(***************************************************************************)
LimbBits == 14
Base == 2^LimbBits

Max(x, y) == IF x > y THEN x ELSE y

\* limb i of a, 0 beyond its length
Limb(a, i) == IF i >= 1 /\ i <= Len(a) THEN a[i] ELSE 0

\* a sequence of limbs without its leading zero limbs
BNorm(a) == SubSeq(a, 1, Cardinality({i \in 1..Len(a) : \E j \in i..Len(a) : a[j] # 0}))

RECURSIVE BFromNat(_)
BFromNat(n) == IF n = 0 THEN <<>> ELSE <<n % Base>> \o BFromNat(n \div Base)

\* the carry into position i, for limb sums s (each below 2 * Base - 1) not yet carried
CarryIn(s, i) ==
    /\ i > 1
    /\ \/ s[i - 1] >= Base
       \/ /\ s[i - 1] = Base - 1
          /\ \E k \in 2..(i - 1) :
                s[i - k] >= Base /\ \A m \in 2..(k - 1) : s[i - m] = Base - 1

BCarry(s) ==
    BNorm([i \in 1..(Len(s) + 1) |-> (Limb(s, i) + (IF CarryIn(s, i) THEN 1 ELSE 0)) % Base])

BAdd(a, b) == BCarry([i \in 1..Max(Len(a), Len(b)) |-> Limb(a, i) + Limb(b, i)])

\* the borrow out of the positions below i, for limb differences d not yet borrowed
BorrowIn(d, i) ==
    /\ i > 1
    /\ \/ d[i - 1] < 0
       \/ /\ d[i - 1] = 0
          /\ \E k \in 2..(i - 1) : d[i - k] < 0 /\ \A m \in 2..(k - 1) : d[i - m] = 0

BBorrow(d) ==
    BNorm([i \in 1..Len(d) |-> (d[i] - (IF BorrowIn(d, i) THEN 1 ELSE 0)) % Base])

\* a - b for a >= b
BSub(a, b) == BBorrow([i \in 1..Len(a) |-> a[i] - Limb(b, i)])

\* -1, 0, 1 as a < b, a = b, a > b
BCmp(a, b) ==
    IF Len(a) < Len(b) THEN -1
    ELSE IF Len(a) > Len(b) THEN 1
    ELSE IF \A i \in 1..Len(a) : a[i] = b[i] THEN 0
    ELSE IF \E i \in 1..Len(a) : a[i] < b[i] /\ \A j \in (i + 1)..Len(a) : a[j] = b[j]
         THEN -1
    ELSE 1

\* a * k for a limb k: the low halves of the limb products plus the high halves
BMulSmall(a, k) ==
    BCarry([i \in 1..(Len(a) + 1) |->
               ((Limb(a, i) * k) % Base) + ((Limb(a, i - 1) * k) \div Base)])

\* column k of the schoolbook product of a and the limbs 1..j of b: the low
\* halves of the limb products of weight k and the high halves of weight k - 1
RECURSIVE BColumn(_, _, _, _)
BColumn(a, b, k, j) ==
    IF j = 0 THEN 0
    ELSE ((Limb(a, k + 1 - j) * b[j]) % Base)
         + ((Limb(a, k - j) * b[j]) \div Base)
         + BColumn(a, b, k, j - 1)

\* a * b
BMul(a, b) ==
    LET Folded(T) ==
            [k \in 1..(Len(T) + 1) |-> (Limb(T, k) % Base) + (Limb(T, k - 1) \div Base)]
    IN  IF a = <<>> \/ b = <<>> THEN <<>>
        ELSE BCarry(Folded([k \in 1..(Len(a) + Len(b)) |-> BColumn(a, b, k, Len(b))]))

Zeros(n) == [i \in 1..n |-> 0]

\* the number of bits of a limb, and of a natural
LimbLen(x) == Cardinality({k \in 0..(LimbBits - 1) : 2^k <= x})

BBitLen(a) == IF a = <<>> THEN 0 ELSE (Len(a) - 1) * LimbBits + LimbLen(a[Len(a)])

\* a * 2^n
BShl(a, n) ==
    IF a = <<>> THEN a
    ELSE Zeros(n \div LimbBits) \o BMulSmall(a, 2^(n % LimbBits))

\* floor(a / 2^n)
BShr(a, n) ==
    LET w == n \div LimbBits
        k == n % LimbBits
        p == 2^k
        q == 2^(LimbBits - k)
    IN  IF w >= Len(a) THEN <<>>
        ELSE BNorm([i \in 1..(Len(a) - w) |->
                      (a[i + w] \div p)
                      + (IF i + w < Len(a) THEN (a[i + w + 1] % p) * q ELSE 0)])

\* bit n (from 0) of a
BBit(a, n) ==
    LET w == n \div LimbBits + 1
    IN  IF w > Len(a) THEN 0 ELSE (a[w] \div 2^(n % LimbBits)) % 2

\* some bit below bit n of a is set
BLowBits(a, n) ==
    LET w == n \div LimbBits
    IN  \/ \E i \in 1..w : i <= Len(a) /\ a[i] # 0
        \/ (w + 1 <= Len(a) /\ a[w + 1] % 2^(n % LimbBits) # 0)

\* the number of trailing zero bits of a limb x # 0, and of a natural a # 0
LimbTz(x) == Cardinality({k \in 1..LimbBits : x % 2^k = 0})

BTz(a) ==
    LET Low(z) == z * LimbBits + LimbTz(a[z + 1])
    IN  Low(Cardinality({i \in 1..Len(a) : \A j \in 1..i : a[j] = 0}))

(***************************************************************************)
(* Long division (Knuth, algorithm D): the divisor d is shifted so that    *)
(* its top limb is at least Base/2, the quotient limb is estimated from    *)
(* the top limbs and corrected downwards.                                  *)
(***************************************************************************)
RECURSIVE BFixDigit(_, _, _, _)
BFixDigit(rem, d, q, t) ==
    IF BCmp(t, rem) <= 0 THEN [q |-> q, r |-> BSub(rem, t)]
    ELSE BFixDigit(rem, d, q - 1, BSub(t, d))

BDigit(rem, d) ==
    LET n == Len(d)
    IN  IF BCmp(rem, d) < 0 THEN [q |-> 0, r |-> rem]
        ELSE LET hi  == IF Len(rem) > n THEN rem[n + 1] ELSE 0
                 est == (hi * Base + rem[n]) \div d[n]
                 q   == IF est >= Base THEN Base - 1 ELSE est
             IN  BFixDigit(rem, d, q, BMulSmall(d, q))

\* the limbs a[i], ..., a[1] brought down one at a time onto the pair qr
RECURSIVE BDivAt(_, _, _, _)
BDivAt(a, d, i, qr) ==
    LET Push(s) ==
            [q |-> IF qr.q = <<>> /\ s.q = 0 THEN <<>> ELSE <<s.q>> \o qr.q,
             r |-> s.r]
    IN  IF i = 0 THEN qr
        ELSE IF qr.r = <<>> /\ a[i] = 0 THEN BDivAt(a, d, i - 1, Push([q |-> 0, r |-> <<>>]))
        ELSE BDivAt(a, d, i - 1, Push(BDigit(<<a[i]>> \o qr.r, d)))

\* the division of a by d, the top limb of d at least Base / 2
BDivLimbs(a, d) == BDivAt(a, d, Len(a), [q |-> <<>>, r |-> <<>>])

\* the division of a by d, both shifted left by sh bits
BDivShifted(a, d, sh) == BDivLimbs(BShl(a, sh), BShl(d, sh))

\* [q |-> floor(a / d), r |-> <<>> exactly when d divides a], d # 0
BDivMod(a, d) == BDivShifted(a, d, LimbBits - LimbLen(d[Len(d)]))

(***************************************************************************)
(* binary64.  A number is NaN, an infinity, zero, or a finite non-zero     *)
(* value s * m * 2^e with s in {1, -1} and m odd.  The sign of a zero is   *)
(* not kept: the service never divides by a computed negative zero and     *)
(* === does not tell the zeros apart.                                      *)
(***************************************************************************)
MantBits == 53
MinExp == 0 - 1074
MaxExp == 1024

NaN == [k |-> "nan"]
Inf(s) == [s |-> s, k |-> "inf"]
Zero == [k |-> "zero"]
Fin(s, m, e) == [s |-> s, k |-> "fin", m |-> m, e |-> e]

\* s * M * 2^e, M # 0 exactly representable, with the trailing zeros of M moved into e
Canon(s, M, e) ==
    IF M = <<>> THEN Zero
    ELSE IF e + BBitLen(M) > MaxExp THEN Inf(s)
    ELSE LET Odd(tz) == Fin(s, BShr(M, tz), e + tz) IN Odd(BTz(M))

\* rounding to nearest, ties to even: the d low bits of M are dropped, q are the
\* bits kept; the dropped bits round up when they are more than half a unit of
\* q, or half a unit and q is odd
FRoundUp(M, sticky, q, d) ==
    BBit(M, d - 1) = 1 /\ (sticky \/ BLowBits(M, d - 1) \/ BBit(q, 0) = 1)

FRoundKept(M, sticky, q, d) == IF FRoundUp(M, sticky, q, d) THEN BAdd(q, <<1>>) ELSE q

FRoundDrop(s, M, e, sticky, d) ==
    Canon(s, IF d <= 0 THEN M ELSE FRoundKept(M, sticky, BShr(M, d), d),
          IF d <= 0 THEN e ELSE e + d)

\* s * M * 2^e (plus a little, when sticky) rounded to nearest, ties to even
FRound(s, M, e, sticky) ==
    FRoundDrop(s, M, e, sticky, Max(BBitLen(M) - MantBits, MinExp - e))

FromInt(n) == IF n < 0 THEN Canon(-1, BFromNat(0 - n), 0) ELSE Canon(1, BFromNat(n), 0)

IsNaN(a) == a.k = "nan"
isFinite(a) == a.k \in {"zero", "fin"}
Sign(a) == IF a.k = "zero" THEN 1 ELSE a.s

FNeg(a) ==
    CASE a.k = "fin" -> Fin(0 - a.s, a.m, a.e)
      [] a.k = "inf" -> Inf(0 - a.s)
      [] OTHER       -> a

MathAbs(a) ==
    CASE a.k = "fin" -> Fin(1, a.m, a.e)
      [] a.k = "inf" -> Inf(1)
      [] OTHER       -> a

FMul(a, b) ==
    CASE IsNaN(a) \/ IsNaN(b) -> NaN
      [] a.k = "inf" \/ b.k = "inf" ->
            IF a.k = "zero" \/ b.k = "zero" THEN NaN ELSE Inf(a.s * b.s)
      [] a.k = "zero" \/ b.k = "zero" -> Zero
      [] OTHER -> FRound(a.s * b.s, BMul(a.m, b.m), a.e + b.e, FALSE)

\* a / b for finite non-zero a and b: the quotient of a.m * 2^k by b.m has at
\* least MantBits + 3 bits, and a remainder makes it sticky
FDivQuotient(a, b, qr, k) == FRound(a.s * b.s, qr.q, a.e - b.e - k, qr.r # <<>>)

FDivShifted(a, b, k) == FDivQuotient(a, b, BDivMod(BShl(a.m, k), b.m), k)

FDiv(a, b) ==
    CASE IsNaN(a) \/ IsNaN(b) -> NaN
      [] a.k = "inf" -> IF b.k = "inf" THEN NaN ELSE Inf(a.s * Sign(b))
      [] b.k = "inf" -> Zero
      [] b.k = "zero" -> IF a.k = "zero" THEN NaN ELSE Inf(a.s)
      [] a.k = "zero" -> Zero
      [] OTHER -> FDivShifted(a, b, Max(0, MantBits + 3 + BBitLen(b.m) - BBitLen(a.m)))

\* a + b for finite non-zero a and b: Ma and Mb are the significands at the
\* common exponent e, c compares them
FAddSum(a, b, e, Ma, Mb, c) ==
    FRound(IF c >= 0 THEN a.s ELSE b.s,
           IF a.s = b.s THEN BAdd(Ma, Mb)
           ELSE IF c >= 0 THEN BSub(Ma, Mb) ELSE BSub(Mb, Ma),
           e, FALSE)

FAddAligned(a, b, e, Ma, Mb) == FAddSum(a, b, e, Ma, Mb, BCmp(Ma, Mb))

FAddAt(a, b, e) == FAddAligned(a, b, e, BShl(a.m, a.e - e), BShl(b.m, b.e - e))

\* a + b for finite non-zero a and b
FAddFin(a, b) ==
    LET topa == a.e + BBitLen(a.m)
        topb == b.e + BBitLen(b.m)
    IN  IF topa - topb > MantBits + 3 THEN a
        ELSE IF topb - topa > MantBits + 3 THEN b
        ELSE FAddAt(a, b, IF a.e < b.e THEN a.e ELSE b.e)

FAdd(a, b) ==
    CASE IsNaN(a) \/ IsNaN(b) -> NaN
      [] a.k = "inf" -> IF b.k = "inf" /\ b.s # a.s THEN NaN ELSE a
      [] b.k = "inf" -> b
      [] a.k = "zero" -> b
      [] b.k = "zero" -> a
      [] OTHER -> FAddFin(a, b)

FSub(a, b) == FAdd(a, FNeg(b))

\* the comparisons of the language: every comparison with NaN is false
FLt(a, b) ==
    LET Negative(d) == d.k # "zero" /\ d.s = -1
    IN  /\ ~IsNaN(a) /\ ~IsNaN(b)
        /\ a # b
        /\ IF a.k = "inf" THEN a.s = -1
           ELSE IF b.k = "inf" THEN b.s = 1
           ELSE Negative(FSub(a, b))

FEq(a, b) == ~IsNaN(a) /\ a = b

FLe(a, b) == FLt(a, b) \/ FEq(a, b)

\* Math.round of a finite a with n fraction bits, q its whole bits: a tie goes
\* towards +Infinity
MathRoundUp(a, n) == BBit(a.m, n - 1) = 1 /\ (a.s = 1 \/ BLowBits(a.m, n - 1))

MathRoundWhole(a, q, n) == Canon(a.s, IF MathRoundUp(a, n) THEN BAdd(q, <<1>>) ELSE q, 0)

\* Math.round: the nearest integer, a tie going towards +Infinity
MathRound(a) ==
    IF a.k # "fin" \/ a.e >= 0 THEN a
    ELSE MathRoundWhole(a, BShr(a.m, 0 - a.e), 0 - a.e)

\* the number a decimal literal n / 10^d denotes
Dec(n, d) == FDiv(FromInt(n), FromInt(10^d))

RECURSIVE BPow(_, _)
BPow(m, n) == IF n = 0 THEN <<1>> ELSE BMul(BPow(m, n - 1), m)

RECURSIVE BToNat(_)
BToNat(a) == IF a = <<>> THEN 0 ELSE Head(a) + Base * BToNat(Tail(a))

\* floor(sqrt(N)) by Newton's iteration from above
RECURSIVE BSqrtFrom(_, _)
BSqrtFrom(N, x) ==
    LET Step(y) == IF BCmp(y, x) >= 0 THEN x ELSE BSqrtFrom(N, y)
    IN  Step(BShr(BAdd(x, BDivMod(N, x).q), 1))

BSqrt(N) == BSqrtFrom(N, BShl(<<1>>, (BBitLen(N) + 1) \div 2))

\* the bits of a radicand whose root has MantBits + 3 bits
RootBits == 2 * (MantBits + 3)

\* the root of M * 4^e, rt = floor(sqrt(M)), rounded once
PowRoot(M, rt, e, sticky) == FRound(1, rt, e, sticky \/ BMul(rt, rt) # M)

PowWidened(M, e, sticky) == PowRoot(M, BSqrt(M), e, sticky)

\* the root of M1 * 2^E1, E1 even, taken of M1 with 2 * t low bits dropped
\* (t > 0, the bits dropped are sticky) or 2 * -t zero bits added
PowScaled(M1, E1, t) ==
    PowWidened(IF t >= 0 THEN BShr(M1, 2 * t) ELSE BShl(M1, 0 - 2 * t),
               E1 \div 2 + t, t > 0 /\ BLowBits(M1, 2 * t))

PowShift(L) ==
    IF L >= RootBits THEN (L - RootBits) \div 2 ELSE 0 - ((RootBits - L + 1) \div 2)

PowSized(M1, E1) == PowScaled(M1, E1, PowShift(BBitLen(M1)))

PowEven(M0, E0) ==
    PowSized(IF E0 % 2 = 0 THEN M0 ELSE BShl(M0, 1), IF E0 % 2 = 0 THEN E0 ELSE E0 - 1)

\* b^(h/2) for a finite non-zero b and an odd h: the root of b^h, rounded once.
\* The root is taken of the leading RootBits bits of b^h; the bits below them
\* are sticky.
PowHalves(b, h) == PowEven(BPow(b.m, h), b.e * h)

\* b^n (whole) or b^(n/2) (n odd) for n > 0
MathPowBy(b, whole, n) ==
    CASE IsNaN(b) -> NaN
      [] b.k = "zero" -> Zero
      [] b.k = "inf" -> IF b.s = -1 /\ whole /\ n % 2 = 1 THEN Inf(-1) ELSE Inf(1)
      [] whole -> FRound(IF n % 2 = 1 THEN b.s ELSE 1, BPow(b.m, n), b.e * n, FALSE)
      [] OTHER -> IF b.s = -1 THEN NaN ELSE PowHalves(b, n)

(***************************************************************************)
(* Math.pow(b, y) for the exponents the service uses: y >= 0 a whole       *)
(* number or a whole number plus one half.  The result is the exact power  *)
(* rounded once.                                                           *)
(***************************************************************************)
MathPow(b, y) ==
    IF y.k = "zero" THEN FromInt(1)
    ELSE MathPowBy(b, y.e >= 0, BToNat(IF y.e >= 0 THEN BShl(y.m, y.e) ELSE y.m))

(***************************************************************************)
(* BondService                                                             *)
(***************************************************************************)
MAX_ITERATIONS == 1000
TOLERANCE == Dec(1, 6)

\* round(value, decimals)
roundBy(value, factor) == FDiv(MathRound(FMul(value, factor)), factor)

round(value, decimals) == roundBy(value, MathPow(FromInt(10), FromInt(decimals)))

\* a current yield on the face value instead of the market price, for C15
calculateCurrentYieldOnFaceValue(faceValue, couponRate, marketPrice) ==
    FDiv(FMul(FDiv(couponRate, FromInt(100)), faceValue), faceValue)

calculateCurrentYield(faceValue, couponRate, marketPrice) ==
    LET annualCoupon == FMul(FDiv(couponRate, FromInt(100)), faceValue)
    IN  FDiv(annualCoupon, marketPrice)

\* the sums of bondPriceAndDerivative after the term of period t, base = 1 + r
CouponTerm(couponPayment, t, acc, base) ==
    [price |-> FAdd(acc.price, FDiv(couponPayment, MathPow(base, FromInt(t)))),
     derivative |->
        FSub(acc.derivative,
             FDiv(FMul(FromInt(t), couponPayment), MathPow(base, FromInt(t + 1))))]

\* the loop of bondPriceAndDerivative from t on, acc the sums so far
RECURSIVE CouponTerms(_, _, _, _, _)
CouponTerms(couponPayment, r, totalPeriods, t, acc) ==
    IF ~FLe(FromInt(t), totalPeriods) THEN acc
    ELSE CouponTerms(couponPayment, r, totalPeriods, t + 1,
                     CouponTerm(couponPayment, t, acc, FAdd(FromInt(1), r)))

\* the sums of bondPriceAndDerivative after the face value at maturity
PrincipalTerm(faceValue, totalPeriods, sums, base) ==
    [price |-> FAdd(sums.price, FDiv(faceValue, MathPow(base, totalPeriods))),
     derivative |->
        FSub(sums.derivative,
             FDiv(FMul(totalPeriods, faceValue),
                  MathPow(base, FAdd(totalPeriods, FromInt(1)))))]

bondPriceAndDerivative(faceValue, couponPayment, r, totalPeriods) ==
    PrincipalTerm(faceValue, totalPeriods,
                  CouponTerms(couponPayment, r, totalPeriods, 1,
                              [price |-> Zero, derivative |-> Zero]),
                  FAdd(FromInt(1), r))

\* the counter t of the loop of bondPriceAndDerivative is a double that starts
\* at 1 and is advanced by t++: 2^53 is the first value t++ leaves where it is
MaxCounter == Canon(1, BShl(<<1>>, MantBits), 0)

\* the loop `for (let t = 1; t <= totalPeriods; t++)` ends: the counter gets
\* past totalPeriods
PriceLoopEnds(periods) ==
    \/ FLt(periods, MaxCounter)
    \/ FAdd(MaxCounter, FromInt(1)) # MaxCounter

\* a classification without the Par case, for C14
determinePremiumOrDiscountWithoutPar(marketPrice, faceValue) ==
    IF FLt(faceValue, marketPrice) THEN "Premium" ELSE "Discount"

determinePremiumOrDiscount(marketPrice, faceValue) ==
    IF FLt(faceValue, marketPrice) THEN "Premium"
    ELSE IF FLt(marketPrice, faceValue) THEN "Discount"
    ELSE "Par"

(***************************************************************************)
(* Dates.  new Date('2026-02-23') is midnight UTC of that day; getMonth    *)
(* and setMonth read and write the fields of the process's local time,     *)
(* toISOString prints the UTC date.  A local time is a record of year,     *)
(* month, day and hour; the days used, 22 to 24, exist in every month, so  *)
(* setMonth never overflows into the next month.                           *)
(***************************************************************************)
\* the time zones a process may run in, and the hours local time is ahead of
\* UTC on the days 22 to 24 of a month
Zones == {"UTC", "Europe/Berlin"}

UtcOffset(z, month) ==
    IF z = "Europe/Berlin" THEN (IF month \in 4..10 THEN 2 ELSE 1) ELSE 0

\* the anchor date of generateCashFlowSchedule in the local time of zone z
today(z) == [month |-> 2, year |-> 2026, day |-> 23, hour |-> UtcOffset(z, 2)]

\* date.setMonth(date.getMonth() + k)
setMonth(date, k) ==
    LET idx == (date.month - 1) + k
    IN  [date EXCEPT !.year = date.year + (idx \div 12), !.month = (idx % 12) + 1]

\* the last day a Date can hold: a Date past it is invalid
MaxDate == [month |-> 9, year |-> 275760, day |-> 13]

isValidDate(date) ==
    \/ date.year < MaxDate.year
    \/ date.year = MaxDate.year /\ date.month < MaxDate.month
    \/ date.year = MaxDate.year /\ date.month = MaxDate.month /\ date.day <= MaxDate.day

\* date.toISOString().split('T')[0] of a valid local time of zone z
toISODate(z, date) ==
    LET hour == date.hour - UtcOffset(z, date.month)
    IN  [month |-> date.month,
         year  |-> date.year,
         day   |-> IF hour < 0 THEN date.day - 1 ELSE date.day]

(***************************************************************************)
(* The requests.  A request body carries decimal literals; the face value  *)
(* and the coupon rate are drawn from FaceValues and CouponRates, the      *)
(* market price is the face value times one of PricePercents / 100, the    *)
(* maturity is a number of half years up to MaxHalfYears.  DeepPremium is  *)
(* a zero-coupon bond of one year offered at three times its face value,   *)
(* Repricings the same bond at that price and at half of it.  FineRate     *)
(* has a coupon rate of seven decimals, FineFace a face value of three,    *)
(* FarMaturity matures after the last day a Date can hold.                 *)
(***************************************************************************)
MaxHalfYears == 6
FaceValues == {[n |-> 1, d |-> 0], [n |-> 1000, d |-> 0]}
CouponRates == {[n |-> 0, d |-> 0], [n |-> 45, d |-> 1]}
PricePercents == {95, 100, 110}
RepricedPercents == {150, 300}
CouponFrequencies == {"annual", "semi-annual"}

CalculateBondDto(f, c, pct, hy, freq) ==
    [faceValue       |-> Dec(f.n, f.d),
     couponRate      |-> Dec(c.n, c.d),
     marketPrice     |-> Dec(f.n * pct, f.d + 2),
     yearsToMaturity |-> Dec(hy * 5, 1),
     couponFrequency |-> freq]

Repricings ==
    {CalculateBondDto([n |-> 1000, d |-> 0], [n |-> 0, d |-> 0], pct, 2, "annual") :
        pct \in RepricedPercents}

DeepPremium == CalculateBondDto([n |-> 1000, d |-> 0], [n |-> 0, d |-> 0], 300, 2, "annual")

FineRate ==
    CalculateBondDto([n |-> 1000, d |-> 0], [n |-> 41234567, d |-> 7], 100, 2, "annual")

FineFace ==
    CalculateBondDto([n |-> 1000125, d |-> 3], [n |-> 45, d |-> 1], 100, 2, "semi-annual")

FineCoupon ==
    CalculateBondDto([n |-> 1000004, d |-> 3], [n |-> 4, d |-> 4], 100, 2, "annual")

FarMaturity ==
    [CalculateBondDto([n |-> 1000, d |-> 0], [n |-> 0, d |-> 0], 100, 2, "annual")
        EXCEPT !.yearsToMaturity = FromInt(300000)]

EndlessMaturity ==
    [CalculateBondDto([n |-> 1000, d |-> 0], [n |-> 45, d |-> 1], 95, 2, "annual")
        EXCEPT !.yearsToMaturity = Canon(1, BPow(BFromNat(10), 16), 0)]

\* a zero-coupon bond of faceValue 2^1000 at marketPrice 1, one annual period
SteepDiscount ==
    [CalculateBondDto([n |-> 1, d |-> 0], [n |-> 0, d |-> 0], 100, 2, "annual")
        EXCEPT !.faceValue = Fin(1, <<1>>, 1000)]

\* a zero-coupon bond of faceValue 2^492 at marketPrice 2^-1000, one annual
\* period
FlatTail ==
    [CalculateBondDto([n |-> 1, d |-> 0], [n |-> 0, d |-> 0], 100, 2, "annual")
        EXCEPT !.faceValue = Fin(1, <<1>>, 492), !.marketPrice = Fin(1, <<1>>, 0 - 1000)]

Requests ==
    {CalculateBondDto(f, c, pct, hy, freq) :
        f \in FaceValues, c \in CouponRates, pct \in PricePercents,
        hy \in 1..MaxHalfYears, freq \in CouponFrequencies}
    \cup {DeepPremium, FineRate, FineFace, FineCoupon}

\* two requests for the same bond: they differ in marketPrice at most
SameBond(d, e) == [d EXCEPT !.marketPrice = e.marketPrice] = e

\* the locals of calculate
periodsPerYear(d) == IF d.couponFrequency = "semi-annual" THEN 2 ELSE 1
totalPeriods(d) == FMul(d.yearsToMaturity, FromInt(periodsPerYear(d)))
couponPayment(d) ==
    FMul(FDiv(FDiv(d.couponRate, FromInt(100)), FromInt(periodsPerYear(d))), d.faceValue)
\* the whole periods up to a positive number a: the passes of a loop
\* `for (p = 1; p <= a; p++)`
Floor(a) ==
    IF a.k # "fin" THEN 0
    ELSE IF a.e >= 0 THEN BToNat(BShl(a.m, a.e))
    ELSE BToNat(BShr(a.m, 0 - a.e))

\* an interest on the periods the schedule has entries for, for C20
totalInterestOnWholePeriods(d) == FMul(couponPayment(d), FromInt(Floor(totalPeriods(d))))

totalInterest(d) == FMul(couponPayment(d), totalPeriods(d))

\* the initial guess of calculateYTM, as a rate per period
approxAnnualYTM(faceValue, coupon, marketPrice, periods, ppy) ==
    FDiv(FAdd(FMul(coupon, FromInt(ppy)),
              FDiv(FSub(faceValue, marketPrice), FDiv(periods, FromInt(ppy)))),
         FDiv(FAdd(faceValue, marketPrice), FromInt(2)))

VARIABLES
    pc,                  \* where the call is: idle, newton, evaluating, schedule,
                         \* done, failed
    dto,                 \* the request calculate was called with
    r,                   \* calculateYTM: the rate per period
    i,                   \* calculateYTM: the loop counter
    evals,               \* the calls of bondPriceAndDerivative so far
    ytm,                 \* what calculateYTM returned
    period,              \* generateCashFlowSchedule: the loop counter
    cumulativeInterest,  \* generateCashFlowSchedule: the running total
    schedule,            \* generateCashFlowSchedule: the entries pushed so far
    result,              \* the BondResult calculate returned
    error,               \* the message of the exception calculate threw
    previous,            \* the caller's copy of the call before this one
    zone,                \* the time zone of the process
    call,                \* a direct call of the helper round: its arguments and result
    view,                \* BondCalculatorPage: the state result, error and isLoading
    pending,             \* BondCalculatorPage: the submissions whose request is in flight
    submissions,         \* BondForm: the requests submitted so far, oldest first
    table                \* CashFlowTable: the schedule it shows and the state page

vars ==
    <<pc, dto, r, i, evals, ytm, period, cumulativeInterest, schedule, result, error,
      previous, zone, call, view, pending, submissions, table>>

None == [k |-> "none"]

Init ==
    /\ pc = "idle"
    /\ dto = None
    /\ r = Zero
    /\ i = 0
    /\ evals = 0
    /\ ytm = Zero
    /\ period = 1
    /\ cumulativeInterest = Zero
    /\ schedule = <<>>
    /\ result = None
    /\ error = None
    /\ previous = None
    /\ zone \in Zones
    /\ call = None
    /\ view = [result |-> None, error |-> None, isLoading |-> FALSE]
    /\ pending = {}
    /\ submissions = <<>>
    /\ table = None

\* a schedule and a running interest that outlive the call, for C17
YtmReturnsOnSharedSchedule(y) ==
    /\ ytm' = y
    /\ pc' = "schedule"
    /\ period' = 1
    /\ UNCHANGED <<cumulativeInterest, schedule>>

\* calculateYTM returns y; calculate goes on to generateCashFlowSchedule
YtmReturns(y) ==
    /\ ytm' = y
    /\ pc' = "schedule"
    /\ period' = 1
    /\ cumulativeInterest' = Zero
    /\ schedule' = <<>>

\* calculate(d) without the edge case of calculateYTM: every call starts the loop
EnterWithoutEdgeCase(d) ==
    /\ dto' = d
    /\ evals' = 0
    /\ UNCHANGED <<result, error>>
    /\ r' = FDiv(approxAnnualYTM(d.faceValue, couponPayment(d), d.marketPrice,
                                 totalPeriods(d), periodsPerYear(d)),
                 FromInt(periodsPerYear(d)))
    /\ i' = 0
    /\ pc' = "newton"
    /\ UNCHANGED <<ytm, period, cumulativeInterest, schedule>>

\* calculate(d) up to the first test of the Newton-Raphson loop
Enter(d) ==
    /\ dto' = d
    /\ evals' = 0
    /\ UNCHANGED <<result, error>>
    /\ IF FEq(couponPayment(d), Zero) /\ FEq(d.faceValue, d.marketPrice)
       THEN YtmReturns(Zero) /\ UNCHANGED <<r, i>>
       ELSE /\ r' = FDiv(approxAnnualYTM(d.faceValue, couponPayment(d), d.marketPrice,
                                         totalPeriods(d), periodsPerYear(d)),
                         FromInt(periodsPerYear(d)))
            /\ i' = 0
            /\ pc' = "newton"
            /\ UNCHANGED <<ytm, period, cumulativeInterest, schedule>>

\* a caller invokes calculate(d)
Calculate(d) ==
    /\ pc = "idle"
    /\ Enter(d)
    /\ UNCHANGED <<previous, zone, call,
                   view, pending, submissions, table>>

\* the caller keeps the response it got and asks again, for the same bond at
\* the same or at another price
CalculateAgain(d) ==
    /\ pc = "done"
    /\ previous = None
    /\ SameBond(d, dto)
    /\ previous' = [dto |-> dto, result |-> result]
    /\ Enter(d)
    /\ UNCHANGED <<zone, call,
                   view, pending, submissions, table>>

\* a loop without the guard: the new rate is kept whatever it is, for C22
GuardedNever(next) == next

\* the guard of the loop: a new rate that is not finite or at most -1 is reset
Guarded(next) ==
    IF ~isFinite(next) \/ FLe(next, FromInt(-1)) THEN Dec(1, 3) ELSE next

\* the tests of the loop with the derivative tested first, for C24
TestedDerivativeFirst(rate, derivative, diff) ==
    IF FEq(derivative, Zero) THEN [r |-> rate, does |-> "throw"]
    ELSE IF FLt(MathAbs(diff), TOLERANCE) THEN [r |-> rate, does |-> "break"]
    ELSE [r |-> Guarded(FSub(rate, FDiv(diff, derivative))), does |-> "update"]

\* the tests of the loop on the price difference and the derivative at rate
Tested(rate, derivative, diff) ==
    IF FLt(MathAbs(diff), TOLERANCE) THEN [r |-> rate, does |-> "break"]
    ELSE IF FEq(derivative, Zero) THEN [r |-> rate, does |-> "throw"]
    ELSE [r |-> Guarded(FSub(rate, FDiv(diff, derivative))), does |-> "update"]

\* the body of the Newton-Raphson loop at rate, pd the price and derivative
\* there: what it does, and the next rate
Evaluated(d, rate, pd) == Tested(rate, pd.derivative, FSub(pd.price, d.marketPrice))

\* one pass of the body of the Newton-Raphson loop
NewtonStep ==
    /\ pc = "newton"
    /\ i < MAX_ITERATIONS
    /\ PriceLoopEnds(totalPeriods(dto))
    /\ evals' = evals + 1
    /\ UNCHANGED <<dto, result, previous, zone, call,
                   view, pending, submissions, table>>
    /\ \E pd \in {bondPriceAndDerivative(dto.faceValue, couponPayment(dto), r,
                                          totalPeriods(dto))} :
       \E body \in {Evaluated(dto, r, pd)} :
          IF body.does = "break"
          THEN YtmReturns(FMul(r, FromInt(periodsPerYear(dto))))
               /\ UNCHANGED <<r, i, error>>
          ELSE IF body.does = "throw"
          THEN /\ pc' = "failed"
               /\ error' = "YTM calculation failed: derivative is zero."
               /\ UNCHANGED <<r, i, ytm, period, cumulativeInterest, schedule>>
          ELSE /\ r' = body.r
               /\ i' = i + 1
               /\ UNCHANGED <<pc, ytm, period, cumulativeInterest, schedule, error>>

\* a pass of the Newton-Raphson loop calls bondPriceAndDerivative, whose loop
\* does not end: the call is evaluating from then on
NewtonHangs ==
    /\ pc = "newton"
    /\ i < MAX_ITERATIONS
    /\ ~PriceLoopEnds(totalPeriods(dto))
    /\ evals' = evals + 1
    /\ pc' = "evaluating"
    /\ UNCHANGED <<dto, r, i, ytm, period, cumulativeInterest, schedule, result, error,
                   previous, zone, call,
                   view, pending, submissions, table>>

\* a loop whose exhaustion is an error of the call, for C23
NewtonExhaustedSignals ==
    /\ pc = "newton"
    /\ ~(i < MAX_ITERATIONS)
    /\ pc' = "failed"
    /\ error' = "YTM calculation failed: no convergence."
    /\ UNCHANGED <<dto, r, i, evals, ytm, period, cumulativeInterest, schedule, result,
                   previous, zone, call,
                   view, pending, submissions, table>>

\* the loop ends at i = MAX_ITERATIONS without having met the tolerance
NewtonExhausted ==
    /\ pc = "newton"
    /\ ~(i < MAX_ITERATIONS)
    /\ YtmReturns(FMul(r, FromInt(periodsPerYear(dto))))
    /\ UNCHANGED <<dto, r, i, evals, result, error, previous, zone, call,
                   view, pending, submissions, table>>

\* Math.round(monthsPerPeriod * period), and the Date of the payment of period p
\* in the local time of zone z
paymentMonths(d, p) ==
    MathRound(FMul(FDiv(FromInt(12), FromInt(periodsPerYear(d))), FromInt(p)))

Months(months) == BToNat(BShl(months.m, months.e))

paymentDate(z, d, p) == setMonth(today(z), Months(paymentMonths(d, p)))

\* the entry generateCashFlowSchedule pushes for period p, cumulative the running
\* total including the period's coupon
Entry(z, d, p, cumulative, coupon, isFinalPeriod, principalPayment) ==
    [couponPayment      |-> round(coupon, 2),
     period             |-> p,
     cumulativeInterest |-> round(cumulative, 2),
     paymentDate        |-> toISODate(z, paymentDate(z, d, p)),
     principalPayment   |-> round(principalPayment, 2),
     totalPayment       |-> round(FAdd(coupon, principalPayment), 2),
     remainingPrincipal |-> IF isFinalPeriod THEN Zero ELSE d.faceValue]

Paying(z, d, p, cumulative, isFinalPeriod) ==
    Entry(z, d, p, cumulative, couponPayment(d), isFinalPeriod,
          IF isFinalPeriod THEN d.faceValue ELSE Zero)

\* entries numbered from 0, for C27
CashFlowFromZero(z, d, p, cumulative) ==
    [Paying(z, d, p, cumulative, FEq(FromInt(p), totalPeriods(d))) EXCEPT !.period = p - 1]

CashFlow(z, d, p, cumulative) ==
    Paying(z, d, p, cumulative, FEq(FromInt(p), totalPeriods(d)))

\* toISOString throws on an invalid Date, and calculate with it
Throws ==
    /\ pc' = "failed"
    /\ error' = "RangeError: Invalid time value"

\* one pass of the loop of generateCashFlowSchedule
SchedulePush ==
    /\ pc = "schedule"
    /\ FLe(FromInt(period), totalPeriods(dto))
    /\ IF isValidDate(paymentDate(zone, dto, period))
       THEN /\ cumulativeInterest' = FAdd(cumulativeInterest, couponPayment(dto))
            /\ schedule' = Append(schedule,
                                  CashFlow(zone, dto, period, cumulativeInterest'))
            /\ period' = period + 1
            /\ UNCHANGED <<pc, error>>
       ELSE Throws /\ UNCHANGED <<cumulativeInterest, schedule, period>>
    /\ UNCHANGED <<dto, r, i, evals, ytm, result, previous, zone, call,
                   view, pending, submissions, table>>

\* the BondResult calculate returns with the schedule entries
BondResult(d, y, entries) ==
    [totalInterest     |-> round(totalInterest(d), 2),
     ytm               |-> round(y, 6),
     currentYield      |-> round(calculateCurrentYield(d.faceValue, d.couponRate,
                                                       d.marketPrice), 6),
     premiumOrDiscount |-> determinePremiumOrDiscount(d.marketPrice, d.faceValue),
     cashFlowSchedule  |-> entries]

\* generateCashFlowSchedule returns and calculate returns the BondResult
Return ==
    /\ pc = "schedule"
    /\ ~FLe(FromInt(period), totalPeriods(dto))
    /\ result' = BondResult(dto, ytm, schedule)
    /\ pc' = "done"
    /\ UNCHANGED <<dto, r, i, evals, ytm, period, cumulativeInterest, schedule, error,
                   previous, zone, call,
                   view, pending, submissions, table>>

Next ==
    \/ \E d \in Requests : Calculate(d)
    \/ NewtonStep
    \/ NewtonExhausted
    \/ SchedulePush
    \/ Return

Spec == Init /\ [][Next]_vars

\* one bond priced twice
NextRepriced ==
    \/ \E d \in Repricings : Calculate(d)
    \/ \E d \in Repricings : CalculateAgain(d)
    \/ NewtonStep
    \/ NewtonExhausted
    \/ SchedulePush
    \/ Return

SpecRepriced == Init /\ [][NextRepriced]_vars

\* the loop of generateCashFlowSchedule from period p on, when no pass throws
RECURSIVE ScheduleFrom(_, _, _, _, _)
ScheduleFrom(z, d, p, cumulative, entries) ==
    IF ~FLe(FromInt(p), totalPeriods(d)) THEN entries
    ELSE ScheduleFrom(z, d, p + 1, FAdd(cumulative, couponPayment(d)),
                      Append(entries,
                             CashFlow(z, d, p, FAdd(cumulative, couponPayment(d)))))

\* some pass of the loop of generateCashFlowSchedule meets an invalid Date; the
\* passes are looked at from the last one down
SomePassThrows(z, d) ==
    \E back \in 0..(Floor(totalPeriods(d)) - 1) :
        ~isValidDate(paymentDate(z, d, Floor(totalPeriods(d)) - back))

\* generateCashFlowSchedule as a whole, and the return of calculate after it
GenerateSchedule ==
    /\ pc = "schedule"
    /\ IF SomePassThrows(zone, dto)
       THEN Throws /\ UNCHANGED <<schedule, result>>
       ELSE /\ schedule' = ScheduleFrom(zone, dto, 1, Zero, <<>>)
            /\ result' = BondResult(dto, ytm, schedule')
            /\ pc' = "done"
            /\ UNCHANGED error
    /\ UNCHANGED <<dto, r, i, evals, ytm, period, cumulativeInterest, previous, zone,
                   call,
                   view, pending, submissions, table>>

\* calls with a maturity near and far, the schedule generated in one step
FarRequests == {FarMaturity, EndlessMaturity, DeepPremium, FineFace}

NextFar ==
    \/ \E d \in FarRequests : Calculate(d)
    \/ NewtonStep
    \/ NewtonHangs
    \/ NewtonExhausted
    \/ GenerateSchedule

SpecFar == Init /\ [][NextFar]_vars

\* the values round is called with on its own: the multiples of 1/128 up to
\* MaxDyadic/128 of either sign, the ties at 2 and at 6 decimals among them
MaxDyadic == 32

RoundValues == {FDiv(FromInt(n), FromInt(128)) : n \in (0 - MaxDyadic)..MaxDyadic}

RoundDecimals == {2, 6}

\* one call of round(value, decimals)
CallRound(value, decimals) ==
    /\ pc = "idle"
    /\ call = None
    /\ call' = [value |-> value, decimals |-> decimals,
                rounded |-> round(value, decimals)]
    /\ UNCHANGED <<pc, dto, r, i, evals, ytm, period, cumulativeInterest, schedule,
                   result, error, previous, zone, view, pending, submissions, table>>

NextRound == \E value \in RoundValues, decimals \in RoundDecimals : CallRound(value, decimals)

SpecRound == Init /\ [][NextRound]_vars

\* calls at the far ends of the price range: the deep discounts, where the
\* powers of 1 + r overflow, and the deep premium
SteepRequests == {SteepDiscount, FlatTail, DeepPremium}

NextSteep ==
    \/ \E d \in SteepRequests : Calculate(d)
    \/ NewtonStep
    \/ NewtonExhausted
    \/ SchedulePush
    \/ Return

SpecSteep == Init /\ [][NextSteep]_vars

(***************************************************************************)
(* The frontend.  BondForm holds the fields the user typed and hands a     *)
(* valid request to BondCalculatorPage.handleSubmit, which posts it and    *)
(* keeps the answer in the state result, error and isLoading.  The root is *)
(* made by createRoot, so the state updates of one continuation of         *)
(* handleSubmit are applied together: the three before the await, and the  *)
(* one of try or catch with the one of finally.  CashFlowTable shows the   *)
(* schedule of a result PAGE_SIZE entries at a time.                       *)
(***************************************************************************)
MaxSubmissions == 4

isPositiveNumber(n) == ~IsNaN(n) /\ FLt(Zero, n)

isNonNegativeNumber(n) == ~IsNaN(n) /\ FLe(Zero, n)

\* the form before anything is typed: parseFloat('') is NaN
initialState ==
    [faceValue       |-> NaN,
     couponRate      |-> NaN,
     marketPrice     |-> NaN,
     yearsToMaturity |-> NaN,
     couponFrequency |-> "semi-annual"]

\* the parsed fields of the forms a user submits
Forms == {initialState, FineRate, FineFace, FineCoupon}

isValid(form) ==
    /\ isPositiveNumber(form.faceValue)
    /\ isNonNegativeNumber(form.couponRate)
    /\ isPositiveNumber(form.marketPrice)
    /\ isPositiveNumber(form.yearsToMaturity)

\* a submit button that stays enabled while a request is in flight, for C29
disabledWhenInvalid(valid, isLoading) == ~valid

\* the submit button: disabled={!isValid || isLoading}
disabled(valid, isLoading) == ~valid \/ isLoading

\* the body a successful POST /bond/calculate answers submission k with
calculateBond(k) == [submission |-> k, request |-> submissions[k]]

\* what calculateBond rejects with: the body of an error response, if there
\* is one, its message a string or an array of strings, and the message of
\* the error itself, if it has one
Rejections ==
    {[data    |-> <<"faceValue must be a positive number",
                    "marketPrice must be a positive number">>,
      isArray |-> TRUE,
      message |-> <<"Request failed with status code 400">>],
     [data    |-> <<"YTM calculation failed: derivative is zero.">>,
      isArray |-> FALSE,
      message |-> <<"Request failed with status code 500">>],
     [data    |-> <<>>,
      isArray |-> FALSE,
      message |-> <<"timeout of 10000ms exceeded">>],
     [data    |-> <<>>,
      isArray |-> FALSE,
      message |-> <<>>]}

RECURSIVE join(_)
join(strings) ==
    IF Len(strings) = 1 THEN Head(strings)
    ELSE Head(strings) \o ", " \o join(Tail(strings))

\* the message handleSubmit shows for a rejection
errorMessage(err) ==
    IF err.data # <<>> THEN (IF err.isArray THEN join(err.data) ELSE Head(err.data))
    ELSE IF err.message # <<>> THEN Head(err.message)
    ELSE "Failed to calculate bond yield. Please check your inputs."

\* BondForm.handleSubmit and BondCalculatorPage.handleSubmit up to the await
HandleSubmit(form) ==
    /\ Len(submissions) < MaxSubmissions
    /\ ~disabled(isValid(form), view.isLoading)
    /\ isValid(form)
    /\ submissions' = Append(submissions, form)
    /\ pending' = pending \cup {Len(submissions) + 1}
    /\ view' = [result |-> None, error |-> None, isLoading |-> TRUE]
    /\ UNCHANGED <<pc, dto, r, i, evals, ytm, period, cumulativeInterest, schedule,
                   result, error, previous, zone, call, table>>

\* the request of submission k is answered: try, then finally
Resolved(k) ==
    /\ k \in pending
    /\ pending' = pending \ {k}
    /\ view' = [view EXCEPT !.result = calculateBond(k), !.isLoading = FALSE]
    /\ UNCHANGED <<pc, dto, r, i, evals, ytm, period, cumulativeInterest, schedule,
                   result, error, previous, zone, call, submissions, table>>

\* the request of submission k fails with err: catch, then finally
Rejected(k, err) ==
    /\ k \in pending
    /\ pending' = pending \ {k}
    /\ view' = [view EXCEPT !.error = [message |-> errorMessage(err)],
                            !.isLoading = FALSE]
    /\ UNCHANGED <<pc, dto, r, i, evals, ytm, period, cumulativeInterest, schedule,
                   result, error, previous, zone, call, submissions, table>>

NextPage ==
    \/ \E form \in Forms : HandleSubmit(form)
    \/ \E k \in 1..MaxSubmissions : Resolved(k)
    \/ \E k \in 1..MaxSubmissions, err \in Rejections : Rejected(k, err)

SpecPage == Init /\ [][NextPage]_vars

PAGE_SIZE == 10

MaxScheduleLength == 45

Min(a, b) == IF a < b THEN a ELSE b

\* Math.ceil(a / b) of whole numbers a >= 0 and b > 0
MathCeil(a, b) == (a + b - 1) \div b

\* a slice that takes the entry at end as well, for C30
sliceThroughEnd(array, start, end) == SubSeq(array, start + 1, Min(end + 1, Len(array)))

\* Array.prototype.slice for 0 <= start <= end: the entries at the 0-based
\* indices start .. end - 1 that exist
slice(array, start, end) == SubSeq(array, start + 1, Min(end, Len(array)))

totalPages == MathCeil(Len(table.schedule), PAGE_SIZE)

paginated == slice(table.schedule, table.page * PAGE_SIZE, (table.page + 1) * PAGE_SIZE)

\* the table is rendered for a result whose schedule has length entries
Mount(length) ==
    /\ table = None
    /\ table' = [schedule |-> [k \in 1..length |-> [period |-> k]], page |-> 0]
    /\ UNCHANGED <<pc, dto, r, i, evals, ytm, period, cumulativeInterest, schedule,
                   result, error, previous, zone, call, view, pending, submissions>>

\* a new submission takes the result, and with it the table, from the page
Unmount ==
    /\ table # None
    /\ table' = None
    /\ UNCHANGED <<pc, dto, r, i, evals, ytm, period, cumulativeInterest, schedule,
                   result, error, previous, zone, call, view, pending, submissions>>

\* a click on the button Previous page
PreviousClick ==
    /\ table # None
    /\ totalPages > 1
    /\ table.page # 0
    /\ table' = [table EXCEPT !.page = Max(0, table.page - 1)]
    /\ UNCHANGED <<pc, dto, r, i, evals, ytm, period, cumulativeInterest, schedule,
                   result, error, previous, zone, call, view, pending, submissions>>

\* a click on the button Next page
NextClick ==
    /\ table # None
    /\ totalPages > 1
    /\ table.page # totalPages - 1
    /\ table' = [table EXCEPT !.page = Min(totalPages - 1, table.page + 1)]
    /\ UNCHANGED <<pc, dto, r, i, evals, ytm, period, cumulativeInterest, schedule,
                   result, error, previous, zone, call, view, pending, submissions>>

NextTable ==
    \/ \E length \in 0..MaxScheduleLength : Mount(length)
    \/ Unmount
    \/ PreviousClick
    \/ NextClick

SpecTable == Init /\ [][NextTable]_vars

(***************************************************************************)
(* The properties.  Returned says calculate has returned result for dto,   *)
(* YtmReturned that calculateYTM has returned ytm.                         *)
(***************************************************************************)
Returned == pc = "done"

YtmReturned == pc \in {"schedule", "done"}

Entries == result.cashFlowSchedule

Percent(rate) == FDiv(rate, FromInt(100))

\* C1: the schedule calculate returns has totalPeriods entries, for fractional
\* totalPeriods too
C1_LengthIsTotalPeriods ==
    Returned => FEq(FromInt(Len(Entries)), totalPeriods(dto))

\* C2: in a returned schedule an entry has a principalPayment above zero exactly
\* when it is the last entry, and the last entry's principalPayment is faceValue
C2_PrincipalOnlyInLastEntry ==
    Returned =>
        \A k \in 1..Len(Entries) :
            /\ FLt(Zero, Entries[k].principalPayment) <=> k = Len(Entries)
            /\ k = Len(Entries) => FEq(Entries[k].principalPayment, dto.faceValue)

\* C3: in a returned schedule remainingPrincipal is 0 exactly in the last entry
\* and faceValue in every other entry
C3_RemainingPrincipalZeroOnlyInLastEntry ==
    Returned =>
        \A k \in 1..Len(Entries) :
            /\ FEq(Entries[k].remainingPrincipal, Zero) <=> k = Len(Entries)
            /\ k # Len(Entries) => FEq(Entries[k].remainingPrincipal, dto.faceValue)

\* C4: in a returned schedule cumulativeInterest never decreases from an entry
\* to the next, and the entry of period k carries k x couponPayment rounded to
\* 2 decimals
C4_CumulativeInterestIsRunningSum ==
    Returned =>
        \A k \in 1..Len(Entries) :
            /\ FEq(Entries[k].cumulativeInterest,
                   round(FMul(FromInt(k), couponPayment(dto)), 2))
            /\ k > 1 => FLe(Entries[k - 1].cumulativeInterest,
                            Entries[k].cumulativeInterest)

\* C5: the cumulativeInterest of the last entry of a returned schedule equals
\* the result's totalInterest, which is couponPayment x totalPeriods rounded to
\* 2 decimals
C5_LastCumulativeInterestIsTotalInterest ==
    Returned =>
        /\ FEq(result.totalInterest,
               round(FMul(couponPayment(dto), totalPeriods(dto)), 2))
        /\ Len(Entries) > 0 =>
              FEq(Entries[Len(Entries)].cumulativeInterest, result.totalInterest)

\* C6: whenever calculateYTM has returned, the price of the bond at the returned
\* rate divided by periodsPerYear differs from marketPrice by less than 1e-6
C6_RoundTripWithinTolerance ==
    YtmReturned =>
        FLt(MathAbs(FSub(bondPriceAndDerivative(
                             dto.faceValue, couponPayment(dto),
                             FDiv(ytm, FromInt(periodsPerYear(dto))),
                             totalPeriods(dto)).price,
                         dto.marketPrice)),
            TOLERANCE)

\* C7: for marketPrice = faceValue calculate returns 'Par' and a ytm within the
\* solver tolerance of couponRate / 100
C7_AtParYtmIsCouponRate ==
    (Returned /\ FEq(dto.marketPrice, dto.faceValue)) =>
        /\ result.premiumOrDiscount = "Par"
        /\ FLt(MathAbs(FSub(result.ytm, Percent(dto.couponRate))), TOLERANCE)

\* C8: a bond above its face value gets a ytm strictly below couponRate / 100,
\* a bond below its face value a ytm strictly above it
C8_PremiumBelowDiscountAboveCouponRate ==
    Returned =>
        /\ FLt(dto.faceValue, dto.marketPrice) =>
              FLt(result.ytm, Percent(dto.couponRate))
        /\ FLt(dto.marketPrice, dto.faceValue) =>
              FLt(Percent(dto.couponRate), result.ytm)

\* C9: for couponPayment = 0 and faceValue = marketPrice calculateYTM returns
\* exactly 0 without one call of bondPriceAndDerivative
C9_ZeroCouponAtParReturnsZeroUnevaluated ==
    (YtmReturned /\ FEq(couponPayment(dto), Zero)
                 /\ FEq(dto.faceValue, dto.marketPrice)) =>
        ytm = Zero /\ evals = 0

C9_Witness ==
    /\ Returned
    /\ FEq(couponPayment(dto), Zero)
    /\ FEq(dto.faceValue, dto.marketPrice)
    /\ result.ytm = Zero
    /\ evals = 0

\* C10: of two calls that differ in marketPrice only, the one with the lower
\* marketPrice returns the strictly larger ytm
C10_LowerPriceLargerYtm ==
    (Returned /\ previous # None) =>
        /\ FLt(dto.marketPrice, previous.dto.marketPrice) =>
              FLt(previous.result.ytm, result.ytm)
        /\ FLt(previous.dto.marketPrice, dto.marketPrice) =>
              FLt(result.ytm, previous.result.ytm)

\* C11: calculate fails with the solver's derivative-zero error only, and a
\* failed call returns no result
C11_FailsOnlyWithDerivativeZero ==
    pc = "failed" =>
        /\ error = "YTM calculation failed: derivative is zero."
        /\ result = None

\* a number with at most `decimals` decimal places: rounding leaves it alone
AtMostDecimals(value, decimals) == round(value, decimals) = value

\* C12: every value of a returned BondResult is rounded: the yields to at most
\* 6 decimals, totalInterest and the currency fields of every entry to at most 2
C12_EveryValueIsRounded ==
    Returned =>
        /\ AtMostDecimals(result.currentYield, 6)
        /\ AtMostDecimals(result.ytm, 6)
        /\ AtMostDecimals(result.totalInterest, 2)
        /\ \A k \in 1..Len(Entries) :
              /\ AtMostDecimals(Entries[k].couponPayment, 2)
              /\ AtMostDecimals(Entries[k].principalPayment, 2)
              /\ AtMostDecimals(Entries[k].totalPayment, 2)
              /\ AtMostDecimals(Entries[k].cumulativeInterest, 2)
              /\ AtMostDecimals(Entries[k].remainingPrincipal, 2)

\* the whole number nearest to m * 2^e * 10^decimals for e < 0, scaled being
\* m * 10^decimals: a tie goes up in magnitude
HalfAwayWhole(scaled, e) == BShr(BAdd(scaled, BShl(<<1>>, 0 - e - 1)), 0 - e)

\* value rounded half away from zero to `decimals` places, the scaling exact
HalfAwayFromZero(value, decimals) ==
    IF value.k # "fin" \/ value.e >= 0 THEN value
    ELSE FDiv(Canon(value.s,
                    HalfAwayWhole(BMul(value.m, BFromNat(10^decimals)), value.e), 0),
              FromInt(10^decimals))

\* C13: round(value, decimals) rounds half away from zero, negative values
\* included
C13_RoundsHalfAwayFromZero ==
    call # None => call.rounded = HalfAwayFromZero(call.value, call.decimals)

\* C14: the classification of a BondResult is Premium exactly when marketPrice >
\* faceValue, Discount exactly when marketPrice < faceValue and Par exactly when
\* the two are equal, whatever ytm was solved
C14_ClassificationIsThreeWay ==
    Returned =>
        /\ result.premiumOrDiscount \in {"Premium", "Discount", "Par"}
        /\ result.premiumOrDiscount = "Premium" <=> FLt(dto.faceValue, dto.marketPrice)
        /\ result.premiumOrDiscount = "Discount" <=> FLt(dto.marketPrice, dto.faceValue)
        /\ result.premiumOrDiscount = "Par" <=> FEq(dto.marketPrice, dto.faceValue)

\* a bond at par has been classified Par, and its ytm is not its coupon rate
C14_Witness ==
    /\ Returned
    /\ FEq(dto.marketPrice, dto.faceValue)
    /\ result.premiumOrDiscount = "Par"
    /\ result.ytm # round(Percent(dto.couponRate), 6)

\* (couponRate/100 x faceValue) / marketPrice rounded to 6 decimals
RoundedCurrentYield ==
    round(FDiv(FMul(Percent(dto.couponRate), dto.faceValue), dto.marketPrice), 6)

C16_ZeroCouponBond ==
    (Returned /\ dto.couponRate = Zero) =>
        /\ result.currentYield = Zero
        /\ result.totalInterest = Zero
        /\ \A k \in 1..Len(Entries) :
              /\ Entries[k].couponPayment = Zero
              /\ Entries[k].cumulativeInterest = Zero
        /\ Len(Entries) > 0 =>
              Entries[Len(Entries)].totalPayment = round(dto.faceValue, 2)
        /\ FLt(dto.marketPrice, dto.faceValue) =>
              /\ result.premiumOrDiscount = "Discount"
              /\ FLt(Zero, result.ytm)

AnchorPlusMonths(months) ==
    [month |-> ((1 + months) % 12) + 1,
     year  |-> 2026 + ((1 + months) \div 12),
     day   |-> 23]

\* C18: the paymentDate of period k is 2026-02-23 advanced by (12/periodsPerYear)
\* x k calendar months: the dates are 12 or 6 months apart, and period 1 of a
\* semi-annual bond is dated 2026-08-23
C18_PaymentDatesAreWholeMonthsOn ==
    Returned =>
        \A k \in 1..Len(Entries) :
            Entries[k].paymentDate = AnchorPlusMonths((12 \div periodsPerYear(dto)) * k)

\* C19: calculateYTM terminates: its loop evaluates bondPriceAndDerivative at
\* most MAX_ITERATIONS times, and no evaluation is one that never returns
C19_CalculateYTMTerminates ==
    /\ evals <= MAX_ITERATIONS
    /\ pc # "evaluating"

C21_EvaluatedRateIsAboveMinusOne ==
    (pc = "newton" /\ i < MAX_ITERATIONS) =>
        /\ isFinite(r)
        /\ FLt(FromInt(-1), r)

\* the new rate of the update step at the current rate, before the guard
RawUpdate ==
    LET pd == bondPriceAndDerivative(dto.faceValue, couponPayment(dto), r,
                                     totalPeriods(dto))
    IN  FSub(r, FDiv(FSub(pd.price, dto.marketPrice), pd.derivative))

\* C22: after every update step of the Newton-Raphson loop r is finite and above
\* -1: a new rate that is NaN, infinite or at most -1 is replaced by 0.001, and
\* the loop goes on with its counter advanced by one, not reset
C22_GuardResetsTheRate ==
    [][(pc = "newton" /\ pc' = "newton" /\ i' # i) =>
          /\ i' = i + 1
          /\ isFinite(r')
          /\ FLt(FromInt(-1), r')
          /\ r' = IF ~isFinite(RawUpdate) \/ FLe(RawUpdate, FromInt(-1))
                  THEN Dec(1, 3) ELSE RawUpdate]_vars

\* the guard has reset the rate, and the loop goes on
C22_Witness ==
    /\ pc = "newton"
    /\ i = 1
    /\ r = Dec(1, 3)
    /\ dto = DeepPremium

\* C23: a loop that has made all MAX_ITERATIONS passes without meeting the
\* tolerance returns the last updated r x periodsPerYear, never evaluated, with
\* no error, and calculate returns a BondResult of the usual shape
C23_ExhaustionReturnsLastRate ==
    /\ [][(pc = "newton" /\ i = MAX_ITERATIONS) =>
             /\ pc' = "schedule"
             /\ ytm' = FMul(r, FromInt(periodsPerYear(dto)))
             /\ evals' = evals
             /\ evals = MAX_ITERATIONS
             /\ error' = None]_vars
    /\ [](Returned =>
             /\ error = None
             /\ DOMAIN result = {"currentYield", "ytm", "totalInterest",
                                 "premiumOrDiscount", "cashFlowSchedule"}
             /\ result.ytm = round(ytm, 6))

\* the loop was exhausted and calculate has returned the reset rate as its ytm
C23_Witness ==
    /\ Returned
    /\ i = MAX_ITERATIONS
    /\ evals = MAX_ITERATIONS
    /\ error = None
    /\ result.ytm = Dec(1, 3)

\* the price and derivative at the current rate, and the price difference
PriceAndDerivative ==
    bondPriceAndDerivative(dto.faceValue, couponPayment(dto), r, totalPeriods(dto))

Converged == FLt(MathAbs(FSub(PriceAndDerivative.price, dto.marketPrice)), TOLERANCE)

\* C24: a pass of the loop evaluates, tests the convergence, then the derivative,
\* then updates: the derivative-zero error is raised exactly when the residual is
\* not below the tolerance and the derivative is 0, and a rate whose residual is
\* below the tolerance is returned unchanged, whatever the derivative there
C24_ConvergenceIsTestedFirst ==
    [][(pc = "newton" /\ i < MAX_ITERATIONS) =>
          /\ Converged =>
                /\ pc' = "schedule"
                /\ r' = r
                /\ ytm' = FMul(r, FromInt(periodsPerYear(dto)))
                /\ error' = None
          /\ pc' = "failed" <=>
                (~Converged /\ FEq(PriceAndDerivative.derivative, Zero))
          /\ pc' = "failed" =>
                error' = "YTM calculation failed: derivative is zero."]_vars

\* a rate was accepted where the derivative is 0
C24_Witness ==
    /\ pc = "schedule"
    /\ dto = FlatTail
    /\ Converged
    /\ FEq(PriceAndDerivative.derivative, Zero)
    /\ ytm = r

\* C25: at every rate above -1 the loop evaluates, the derivative is negative
\* and the price positive, and the derivative-zero error is not raised at such a
\* rate
C25_DerivativeIsNegative ==
    /\ (pc = "newton" /\ i < MAX_ITERATIONS /\ isFinite(r) /\ FLt(FromInt(-1), r)) =>
          /\ FLt(PriceAndDerivative.derivative, Zero)
          /\ FLt(Zero, PriceAndDerivative.price)
    /\ (pc = "failed" /\ isFinite(r) /\ FLt(FromInt(-1), r)) =>
          error # "YTM calculation failed: derivative is zero."

\* C26: in every entry totalPayment is couponPayment + principalPayment, the
\* three as emitted after rounding to 2 decimals
C26_TotalPaymentIsSumOfEmitted ==
    Returned =>
        \A k \in 1..Len(Entries) :
            Entries[k].totalPayment =
                round(FAdd(Entries[k].couponPayment, Entries[k].principalPayment), 2)

\* C27: the i-th entry of the schedule has period i, and an entry is not
\* modified once appended: the schedule grows at its end only, and calculate
\* returns it as it is
C27_EntriesAreNumberedAndKept ==
    /\ [](\A k \in 1..Len(schedule) : schedule[k].period = k)
    /\ [](Returned => Entries = schedule)
    /\ [][pc = "schedule" =>
             \/ schedule' = schedule
             \/ /\ Len(schedule') = Len(schedule) + 1
                /\ SubSeq(schedule', 1, Len(schedule)) = schedule]_vars

\* a schedule of several entries was returned
C27_Witness ==
    /\ Returned
    /\ Len(Entries) >= 3
    /\ Entries[3].period = 3

\* the yield of a bond of one period: periodsPerYear x ((couponPayment +
\* faceValue) / marketPrice - 1)
SinglePeriodYield ==
    FMul(FromInt(periodsPerYear(dto)),
         FSub(FDiv(FAdd(couponPayment(dto), dto.faceValue), dto.marketPrice), FromInt(1)))

\* C28: a bond of one period has a schedule of one entry that pays couponPayment
\* + faceValue and leaves no principal, and its ytm is the yield of the one
\* period, to 0.00001
C28_SinglePeriodBond ==
    (Returned /\ FEq(totalPeriods(dto), FromInt(1))) =>
        /\ Len(Entries) = 1
        /\ Entries[1].totalPayment = round(FAdd(couponPayment(dto), dto.faceValue), 2)
        /\ Entries[1].remainingPrincipal = Zero
        /\ FLe(MathAbs(FSub(result.ytm, SinglePeriodYield)), Dec(1, 5))

\* the messages a failed request can leave on the page
ErrorMessages == {errorMessage(err) : err \in Rejections}

\* C29: in BondCalculatorPage, whatever the order of submissions, successful
\* and failed responses, result and error are never both set, both are null
\* while isLoading is true, and once a submission was made and no request is
\* in flight, isLoading is false and exactly one of result and error is set:
\* the answer to the last submission, or the message of its failure
C29_PageShowsLatestAnswer ==
    /\ ~(view.result # None /\ view.error # None)
    /\ view.isLoading => view.result = None /\ view.error = None
    /\ (pending = {} /\ submissions # <<>>) =>
        /\ ~view.isLoading
        /\ \/ view.result = calculateBond(Len(submissions)) /\ view.error = None
           \/ /\ view.result = None
              /\ view.error # None
              /\ view.error.message \in ErrorMessages
    /\ (pending # {}) => view.isLoading /\ pending = {Len(submissions)}

C29_Witness ==
    /\ pending = {}
    /\ Len(submissions) = 2
    /\ view.result = None
    /\ view.error # None
    /\ view.error.message =
        "faceValue must be a positive number, marketPrice must be a positive number"

\* ceil(length / 10)
PagesOf(length) == IF length % 10 = 0 THEN length \div 10 ELSE length \div 10 + 1

\* the rows the table shows on page p, and whether entry k is among them
RowsOn(p) == slice(table.schedule, p * PAGE_SIZE, (p + 1) * PAGE_SIZE)

ShownOn(p, k) == \E j \in 1..Len(RowsOn(p)) : RowsOn(p)[j] = table.schedule[k]

TableShown == table # None /\ Len(table.schedule) > 0

\* C30: in CashFlowTable, whatever the Previous and Next clicks on a schedule
\* that is not empty, page stays within 0 .. ceil(length / 10) - 1, the rows
\* shown are the entries at the indices page * 10 .. min((page + 1) * 10,
\* length) - 1, every entry is shown on exactly one page, a click moves to
\* the page before or after, and below the last page Next can be clicked
C30_PagesPartitionTheSchedule ==
    /\ [](TableShown =>
            LET length == Len(table.schedule)
                first  == table.page * 10
                last   == Min((table.page + 1) * 10, length) - 1
            IN  /\ table.page \in 0..(PagesOf(length) - 1)
                /\ paginated = [j \in 1..(last - first + 1) |-> table.schedule[first + j]]
                /\ \A k \in 1..length :
                       Cardinality({p \in 0..(PagesOf(length) - 1) : ShownOn(p, k)}) = 1
                /\ table.page < PagesOf(length) - 1 => ENABLED NextClick
                /\ table.page > 0 => ENABLED PreviousClick)
    /\ [][(TableShown /\ table' # None /\ table' # table) =>
            /\ table'.schedule = table.schedule
            /\ table'.page \in {table.page - 1, table.page + 1}]_vars

C30_Witness ==
    /\ TableShown
    /\ Len(table.schedule) = 25
    /\ table.page = 2
    /\ paginated = [j \in 1..5 |-> [period |-> 20 + j]]

====
